---- MODULE Spec2Model ----
(***************************************************************************)
(* Host-scanning subsystem of the host database: the dispatcher            *)
(* (HostDB.scanHosts), the scan worker (HostDB.scanHost), the enqueue      *)
(* operation (HostDB.queueScan), the interval policy                       *)
(* (calculateScanInterval) and HostDB.Close.                               *)
(*                                                                         *)
(* Granularity.  sync.Mutex is modelled without ownership, as Go           *)
(* implements it: Lock blocks while the mutex is held, Unlock releases it  *)
(* whoever holds it, and Unlock of an unlocked mutex is a fatal runtime    *)
(* error that ends the process (crashed).  A critical section is two       *)
(* steps: Lock together with the statements up to the Unlock, then the     *)
(* Unlock.  Statements outside a critical section are separate steps       *)
(* wherever they touch shared fields of HostDB.                            *)
(*                                                                         *)
(* Time is counted in minutes, latencies and timeouts in milliseconds,      *)
(* the dispatcher's sleep in seconds.                                      *)
(*                                                                         *)
(* Specifications.  Spec: the database from NewHostDB, or already running  *)
(* near the cap of 100 scans, with Close.  SpecQueue: one batch handed to  *)
(* queueScan on a store of hosts of every age.  SpecRescan: the running    *)
(* database with each host scanned up to twice, Close not called.          *)
(* SpecNoStop: the database under fair scheduling, Close not called.       *)
(***************************************************************************)
EXTENDS Integers, Sequences, FiniteSets, TLC

\* ------------------------------------------------------------------ bounds
NumHosts == 2
MaxScans == 1
MaxTicks == 1
WarmGap == 1
BgGap == 1
MaxBgDone == 1

\* --------------------------------------------------------------- constants
scanInterval == 30
scanCheckInterval == 15
maxScanThreads == 100
minScans == 25
latencyCap == 25
twoMinutes == 120000

Hosts == 1..NumHosts

\* Who locked hdb.mu last: a host's worker (its number), the dispatcher,
\* a worker scanning a host outside Hosts, or nobody (unlocked).
NoOwner == 0
DispId == -1
BgId == -2

\* The goroutines that use hdb.mu.
Tasks == Hosts \cup {DispId, BgId}

\* The zero time.Time.
TimeUnset == -1

\* The IP-network sets a host's address can resolve to.
NetSets == {{"10.0.1.0/24"}, {"10.0.2.0/24"}}

\* What utils.LookupIPNets can return: the resolved set with a nil error,
\* or no set with an error.
Lookups == {[err |-> FALSE, nets |-> n] : n \in NetSets}
             \cup {[err |-> TRUE, nets |-> {}]}

\* Latencies a handshake can measure (ms).
Latencies == {250}

\* Error texts a protocol attempt can return; "" is a nil error.
ErrNone == ""
ErrDial == "dial tcp: i/o timeout"
ErrCanceled == "context canceled"

VARIABLES
    scanList, benchmarkList, scanMap, scanThreads, benchmarking,
    initialScanLatencies, mu, crashed,
    tgStopped, tgCount, closePc,
    synced, dpc, timer,
    wpc, werr, wsuccess, wlatency, wtimeout, wstart,
    history, lastSeen, succ, fail, ipNets, lastIPChange,
    unlocking, bgScans, now, launchSnap

vars == <<scanList, benchmarkList, scanMap, scanThreads, benchmarking,
          initialScanLatencies, mu, crashed, tgStopped, tgCount, closePc,
          synced, dpc, timer, wpc, werr, wsuccess, wlatency, wtimeout,
          wstart, history, lastSeen, succ, fail, ipNets, lastIPChange,
          unlocking, bgScans, now, launchSnap>>

hdbVars == <<scanList, benchmarkList, scanMap, scanThreads, benchmarking>>
workerLocals == <<werr, wsuccess, wlatency, wtimeout, wstart>>
hostVars == <<history, lastSeen, succ, fail, ipNets, lastIPChange>>
netVars == <<ipNets, lastIPChange>>
tgVars == <<tgStopped, tgCount, closePc>>
dispVars == <<dpc, timer>>

\* ----------------------------------------------------------------- helpers
Last(s) == s[Len(s)]

InSeq(x, s) == \E i \in 1..Len(s) : s[i] = x

Occurrences(x, s) == Cardinality({i \in 1..Len(s) : s[i] = x})

LessThan(a, b) == a < b

\* strings.Contains(err.Error(), "canceled")
ContainsCanceled(e) == e \in {ErrCanceled}

\* The 24 samples 10*(7i mod 25) ms, a permutation of 10, 20, ..., 240.
WarmSamples == [i \in 1..(minScans - WarmGap) |-> 10 * ((i * 7) % 25)]

NoSnap == [host |-> 0, vals |-> <<>>]
\* ------------------------------------------------------------------- mutex
\* sync.Mutex.Lock by task t: blocks while the mutex is held.
Lock(t) == mu = NoOwner /\ mu' = t /\ UNCHANGED crashed

\* sync.Mutex.Unlock: releases the mutex whoever locked it; unlocking an
\* unlocked mutex is "fatal error: sync: unlock of unlocked mutex".
Unlock ==
    IF mu = NoOwner
    THEN crashed' = TRUE /\ mu' = mu
    ELSE mu' = NoOwner /\ UNCHANGED crashed

\* ------------------------------------------------------------------ timer
\* timer is the duration (seconds) of the time.After the dispatcher is
\* blocked on in a select, 0 when it is in none.

\* ------------------------------------------------------------ thread group
\* tg.Add succeeds until the group is stopped.
tgAddOk == ~tgStopped

\* tg.StopChan() is closed.
StopChanClosed == tgStopped

\* ---------------------------------------------------------- interval policy
\* calculateScanInterval with >= in the test of line 257.
calculateScanIntervalGe(ls, t) ==
    IF ls = TimeUnset THEN scanInterval
    ELSE IF t - ls > 28 * 24 * 60 THEN scanInterval * 48
    ELSE IF t - ls > 14 * 24 * 60 THEN scanInterval * 24
    ELSE IF t - ls > 7 * 24 * 60 THEN scanInterval * 12
    ELSE IF t - ls > 3 * 24 * 60 THEN scanInterval * 8
    ELSE IF t - ls > 2 * 24 * 60 THEN scanInterval * 4
    ELSE IF t - ls >= 24 * 60 THEN scanInterval * 2
    ELSE scanInterval

\* Lines 238-261; ls is host.LastSeen, t the current time, in minutes.
calculateScanInterval(ls, t) ==
    IF ls = TimeUnset THEN scanInterval
    ELSE IF t - ls > 28 * 24 * 60 THEN scanInterval * 48
    ELSE IF t - ls > 14 * 24 * 60 THEN scanInterval * 24
    ELSE IF t - ls > 7 * 24 * 60 THEN scanInterval * 12
    ELSE IF t - ls > 3 * 24 * 60 THEN scanInterval * 8
    ELSE IF t - ls > 2 * 24 * 60 THEN scanInterval * 4
    ELSE IF t - ls > 24 * 60 THEN scanInterval * 2
    ELSE scanInterval

\* --------------------------------------------------------------- queueScan
\* Line 32 with <= in place of <.
toBenchmarkLe(h) ==
    /\ Len(history[h]) > 0
    /\ now - Last(history[h]).Timestamp <= calculateScanInterval(lastSeen[h], now)

\* Line 32.
toBenchmark(h) ==
    /\ Len(history[h]) > 0
    /\ now - Last(history[h]).Timestamp < calculateScanInterval(lastSeen[h], now)

\* queueScan without the early return of lines 26-30.
queueScanNoMapCheck(h) ==
    /\ scanMap' = [x \in DOMAIN scanMap \cup {h} |->
                     IF x = h THEN toBenchmark(h) ELSE scanMap[x]]
    /\ IF toBenchmark(h)
       THEN /\ benchmarkList' = Append(benchmarkList, h)
            /\ UNCHANGED scanList
       ELSE /\ scanList' = Append(scanList, h)
            /\ UNCHANGED benchmarkList
    /\ UNCHANGED <<scanThreads, benchmarking>>

\* queueScan storing line 33's boolean before the test of line 27.
queueScanStoreFirst(h) ==
    /\ scanMap' = [x \in DOMAIN scanMap \cup {h} |->
                     IF x = h THEN toBenchmark(h) ELSE scanMap[x]]
    /\ IF h \in DOMAIN scanMap
       THEN UNCHANGED <<scanList, benchmarkList>>
       ELSE IF toBenchmark(h)
            THEN /\ benchmarkList' = Append(benchmarkList, h)
                 /\ UNCHANGED scanList
            ELSE /\ scanList' = Append(scanList, h)
                 /\ UNCHANGED benchmarkList
    /\ UNCHANGED <<scanThreads, benchmarking>>

\* Lines 26-38, the statements between Lock and Unlock.
queueScan(h) ==
    IF h \in DOMAIN scanMap
    THEN UNCHANGED hdbVars
    ELSE /\ scanMap' = [x \in DOMAIN scanMap \cup {h} |->
                          IF x = h THEN toBenchmark(h) ELSE scanMap[x]]
         /\ IF toBenchmark(h)
            THEN /\ benchmarkList' = Append(benchmarkList, h)
                 /\ UNCHANGED scanList
            ELSE /\ scanList' = Append(scanList, h)
                 /\ UNCHANGED benchmarkList
         /\ UNCHANGED <<scanThreads, benchmarking>>

\* ---------------------------------------------------------------- initial
InitShared ==
    /\ scanList = <<>>
    /\ benchmarkList = <<>>
    /\ scanMap = <<>>
    /\ benchmarking = FALSE
    /\ mu = NoOwner
    /\ crashed = FALSE
    /\ tgStopped = FALSE
    /\ closePc = "open"
    /\ wpc = [h \in Hosts |-> "idle"]
    /\ werr = [h \in Hosts |-> ErrNone]
    /\ wsuccess = [h \in Hosts |-> FALSE]
    /\ wlatency = [h \in Hosts |-> 0]
    /\ wtimeout = [h \in Hosts |-> 0]
    /\ wstart = [h \in Hosts |-> 0]
    /\ succ = [h \in Hosts |-> 0]
    /\ fail = [h \in Hosts |-> 0]
    /\ ipNets = [h \in Hosts |-> {"10.0.1.0/24"}]
    /\ lastIPChange = [h \in Hosts |-> TimeUnset]
    /\ unlocking = {}
    /\ launchSnap = NoSnap

\* Hosts that were never scanned, at time 0.
InitCommon ==
    /\ InitShared
    /\ history = [h \in Hosts |-> <<>>]
    /\ lastSeen = [h \in Hosts |-> TimeUnset]
    /\ now = 0

\* NewHostDB: empty queues and map, the dispatcher goroutine just started.
InitNew ==
    /\ InitCommon
    /\ scanThreads = 0
    /\ bgScans = 0
    /\ initialScanLatencies = <<>>
    /\ tgCount = 0
    /\ synced = FALSE
    /\ dpc = "start"
    /\ timer = 0

\* A database that has been running: the dispatcher sleeps between two
\* iterations, workers are scanning maxScanThreads - BgGap hosts outside
\* Hosts, and minScans - WarmGap latency samples have been collected.
InitRunning ==
    /\ InitCommon
    /\ scanThreads = maxScanThreads - BgGap
    /\ bgScans = maxScanThreads - BgGap
    /\ initialScanLatencies = WarmSamples
    /\ tgCount = 1 + (maxScanThreads - BgGap)
    /\ synced = TRUE
    /\ dpc = "tick"
    /\ timer = scanCheckInterval

Init == InitNew \/ InitRunning

\* The current time of InitLoaded: 29 days after time 0.
Epoch == 29 * 24 * 60

\* Minutes since a host was last seen: the bounds of the tiers of lines
\* 242-259, and one minute more.
Ages == {0, 24 * 60, 24 * 60 + 1, 2 * 24 * 60, 2 * 24 * 60 + 1,
         3 * 24 * 60, 3 * 24 * 60 + 1, 7 * 24 * 60, 7 * 24 * 60 + 1,
         14 * 24 * 60, 14 * 24 * 60 + 1, 28 * 24 * 60, 28 * 24 * 60 + 1}

\* Minutes since a host's latest scan started: around each value
\* calculateScanInterval returns.
Gaps == {0, 29, 30, 59, 60, 119, 120, 239, 240, 359, 360, 719, 720,
         24 * 60 - 1, 24 * 60}

\* What the store can hold of a host: never scanned; scanned without
\* success after it was last seen, or never seen; or last seen in its
\* latest scan.  Only the latest record of the history is kept.
StoredHosts ==
    {[ls |-> TimeUnset, hist |-> <<>>]}
      \cup {[ls |-> TimeUnset,
             hist |-> <<[Timestamp |-> Epoch - d, Success |-> FALSE,
                         Error |-> ErrDial]>>] : d \in Gaps}
      \cup {[ls |-> Epoch - p[1],
             hist |-> <<[Timestamp |-> Epoch - p[2], Success |-> FALSE,
                         Error |-> ErrDial]>>] :
                p \in {q \in Ages \X Gaps : q[2] < q[1]}}
      \cup {[ls |-> Epoch - a,
             hist |-> <<[Timestamp |-> Epoch - a, Success |-> TRUE,
                         Error |-> ErrNone]>>] : a \in Ages}

\* A database opened on a store of hosts seen and scanned before: the
\* dispatcher sleeps before its next iteration, no worker is running.
InitLoaded ==
    /\ InitShared
    /\ now = Epoch
    /\ \E e \in StoredHosts :
          /\ lastSeen = [h \in Hosts |-> e.ls]
          /\ history = [h \in Hosts |-> e.hist]
    /\ scanThreads = 0
    /\ bgScans = 0
    /\ initialScanLatencies = <<>>
    /\ tgCount = 1
    /\ synced = TRUE
    /\ dpc = "tick"
    /\ timer = scanCheckInterval
\* -------------------------------------------------------------- dispatcher
\* scanHosts returning after hdb.tg.Add succeeded: the deferred tg.Done.
DispReturn == dpc' = "done" /\ tgCount' = tgCount - 1

\* Lines 166-170.
DispStart ==
    /\ ~crashed
    /\ UNCHANGED timer
    /\ dpc = "start"
    /\ IF tgAddOk
       THEN dpc' = "syncCheck" /\ tgCount' = tgCount + 1
       ELSE dpc' = "done" /\ UNCHANGED tgCount
    /\ UNCHANGED <<hdbVars, initialScanLatencies, mu, crashed, tgStopped,
                   closePc, synced, wpc, workerLocals, hostVars,
                   unlocking, bgScans, now, launchSnap>>

\* The loop of lines 172-181 left without asking the syncer.
SyncCheckNoWait ==
    /\ ~crashed
    /\ timer' = 0
    /\ dpc = "syncCheck"
    /\ dpc' = "pull"
    /\ UNCHANGED <<hdbVars, initialScanLatencies, mu, crashed, tgVars,
                   synced, wpc, workerLocals, hostVars,
                   unlocking, bgScans, now, launchSnap>>

\* Lines 173-175.
SyncCheck ==
    /\ ~crashed
    /\ timer' = IF synced THEN 0 ELSE scanCheckInterval
    /\ dpc = "syncCheck"
    /\ dpc' = IF synced THEN "pull" ELSE "syncSelect"
    /\ UNCHANGED <<hdbVars, initialScanLatencies, mu, crashed, tgVars,
                   synced, wpc, workerLocals, hostVars,
                   unlocking, bgScans, now, launchSnap>>

\* Lines 176-178: the stop case of the select.
SyncSelectStop ==
    /\ ~crashed
    /\ timer' = 0
    /\ dpc = "syncSelect"
    /\ StopChanClosed
    /\ DispReturn
    /\ UNCHANGED <<hdbVars, initialScanLatencies, mu, crashed, tgStopped,
                   closePc, synced, wpc, workerLocals, hostVars,
                   unlocking, bgScans, now, launchSnap>>

\* Line 179: the timer case of the select.
SyncSelectTimer ==
    /\ ~crashed
    /\ timer' = 0
    /\ dpc = "syncSelect"
    /\ dpc' = "syncCheck"
    /\ UNCHANGED <<hdbVars, initialScanLatencies, mu, crashed, tgVars,
                   synced, wpc, workerLocals, hostVars,
                   unlocking, bgScans, now, launchSnap>>

\* Line 184: the store starts publishing a batch of hosts, each handed to
\* queueScan.
getHostsForScan ==
    /\ ~crashed
    /\ UNCHANGED timer
    /\ dpc = "pull"
    /\ dpc' = "queue"
    /\ UNCHANGED <<hdbVars, initialScanLatencies, mu, crashed, tgVars,
                   synced, wpc, workerLocals, hostVars, unlocking, bgScans,
                   now, launchSnap>>

\* Lines 25-38: Lock and the statements up to the Unlock, for the next host
\* of the batch.  The batch may repeat hosts and may hold hosts in flight.
QueueScanCapped(h, cap) ==
    /\ ~crashed
    /\ UNCHANGED timer
    /\ dpc = "queue"
    /\ toBenchmark(h) \/ succ[h] + fail[h] < cap
    /\ Lock(DispId)
    /\ queueScan(h)
    /\ dpc' = "queueU"
    /\ UNCHANGED <<initialScanLatencies, tgVars, synced, wpc, workerLocals,
                   hostVars, unlocking, bgScans, now, launchSnap>>

\* A batch holds a host for a scan at most MaxScans times.
QueueScanLock(h) == QueueScanCapped(h, MaxScans)

\* Lines 28 and 39.
QueueScanUnlock ==
    /\ ~crashed
    /\ UNCHANGED timer
    /\ dpc = "queueU"
    /\ Unlock
    /\ dpc' = "queue"
    /\ UNCHANGED <<hdbVars, initialScanLatencies, tgVars, synced, wpc, workerLocals, hostVars, unlocking, bgScans, now,
                   launchSnap>>

\* The batch is exhausted and getHostsForScan returns.
QueueDone ==
    /\ ~crashed
    /\ UNCHANGED timer
    /\ dpc = "queue"
    /\ dpc' = "scanLoop"
    /\ UNCHANGED <<hdbVars, initialScanLatencies, mu, crashed, tgVars,
                   synced, wpc, workerLocals, hostVars,
                   unlocking, bgScans, now, launchSnap>>

\* What the launch attempt of lines 186-198 / 208-220 found before it
\* changed anything.
Snapshot(h) == [host |-> h,
                vals |-> <<scanList, benchmarkList, scanThreads, benchmarking>>]

\* The scan critical section without the test of line 187.
launchScanNoCap ==
    /\ scanThreads' = scanThreads + 1
    /\ scanList' = Tail(scanList)
    /\ wpc' = [wpc EXCEPT ![Head(scanList)] = "launched"]
    /\ launchSnap' = Snapshot(Head(scanList))
    /\ dpc' = "scanU"

\* Lines 187-198: the body of the scan critical section.
launchScan ==
    IF scanThreads < maxScanThreads
    THEN /\ scanThreads' = scanThreads + 1
         /\ scanList' = Tail(scanList)
         /\ wpc' = [wpc EXCEPT ![Head(scanList)] = "launched"]
         /\ launchSnap' = Snapshot(Head(scanList))
         /\ dpc' = "scanU"
    ELSE /\ dpc' = "scanCapU"
         /\ UNCHANGED <<scanThreads, scanList, wpc, launchSnap>>

\* Line 185, exit of the loop (a read of scanList without the mutex).
ScanLoopExit ==
    /\ ~crashed
    /\ UNCHANGED timer
    /\ dpc = "scanLoop"
    /\ Len(scanList) = 0
    /\ dpc' = "benchLoop"
    /\ UNCHANGED <<hdbVars, initialScanLatencies, mu, crashed, tgVars,
                   synced, wpc, workerLocals, hostVars,
                   unlocking, bgScans, now, launchSnap>>

\* Lines 185-199.
ScanLoopLock ==
    /\ ~crashed
    /\ UNCHANGED timer
    /\ dpc = "scanLoop"
    /\ Len(scanList) > 0
    /\ Lock(DispId)
    /\ launchScan
    /\ UNCHANGED <<benchmarkList, scanMap, benchmarking,
                   initialScanLatencies, tgVars, synced, workerLocals, hostVars, unlocking, bgScans, now>>

\* Line 203.
ScanLoopUnlock ==
    /\ ~crashed
    /\ UNCHANGED timer
    /\ dpc = "scanU"
    /\ Unlock
    /\ dpc' = "scanLoop"
    /\ UNCHANGED <<hdbVars, initialScanLatencies, tgVars, synced, wpc, workerLocals, hostVars, unlocking, bgScans, now,
                   launchSnap>>

\* Lines 200-201.
ScanCapUnlock ==
    /\ ~crashed
    /\ UNCHANGED timer
    /\ dpc = "scanCapU"
    /\ Unlock
    /\ dpc' = "benchLoop"
    /\ UNCHANGED <<hdbVars, initialScanLatencies, tgVars, synced, wpc, workerLocals, hostVars, unlocking, bgScans, now,
                   launchSnap>>

\* The benchmark critical section without the test of line 209.
launchBenchmarkNoFlagTest ==
    /\ benchmarking' = TRUE
    /\ benchmarkList' = Tail(benchmarkList)
    /\ wpc' = [wpc EXCEPT ![Head(benchmarkList)] = "bLaunched"]
    /\ launchSnap' = Snapshot(Head(benchmarkList))
    /\ dpc' = "benchU"

\* Lines 209-220: the body of the benchmark critical section.
launchBenchmark ==
    IF ~benchmarking
    THEN /\ benchmarking' = TRUE
         /\ benchmarkList' = Tail(benchmarkList)
         /\ wpc' = [wpc EXCEPT ![Head(benchmarkList)] = "bLaunched"]
         /\ launchSnap' = Snapshot(Head(benchmarkList))
         /\ dpc' = "benchU"
    ELSE /\ dpc' = "benchBusyU"
         /\ UNCHANGED <<benchmarking, benchmarkList, wpc, launchSnap>>

\* Line 207, exit of the loop.
BenchLoopExit ==
    /\ ~crashed
    /\ timer' = scanCheckInterval
    /\ dpc = "benchLoop"
    /\ Len(benchmarkList) = 0
    /\ dpc' = "tick"
    /\ UNCHANGED <<hdbVars, initialScanLatencies, mu, crashed, tgVars,
                   synced, wpc, workerLocals, hostVars,
                   unlocking, bgScans, now, launchSnap>>

\* Lines 207-221.
BenchLoopLock ==
    /\ ~crashed
    /\ UNCHANGED timer
    /\ dpc = "benchLoop"
    /\ Len(benchmarkList) > 0
    /\ Lock(DispId)
    /\ launchBenchmark
    /\ UNCHANGED <<scanList, scanMap, scanThreads, initialScanLatencies,
                   tgVars, synced, workerLocals, hostVars,
                   unlocking, bgScans, now>>

\* Line 225.
BenchLoopUnlock ==
    /\ ~crashed
    /\ UNCHANGED timer
    /\ dpc = "benchU"
    /\ Unlock
    /\ dpc' = "benchLoop"
    /\ UNCHANGED <<hdbVars, initialScanLatencies, tgVars, synced, wpc, workerLocals, hostVars, unlocking, bgScans, now,
                   launchSnap>>

\* Lines 222-223.
BenchBusyUnlock ==
    /\ ~crashed
    /\ timer' = scanCheckInterval
    /\ dpc = "benchBusyU"
    /\ Unlock
    /\ dpc' = "tick"
    /\ UNCHANGED <<hdbVars, initialScanLatencies, tgVars, synced, wpc, workerLocals, hostVars, unlocking, bgScans, now,
                   launchSnap>>

\* Lines 228-230: the stop case of the select.
TickStop ==
    /\ ~crashed
    /\ timer' = 0
    /\ dpc = "tick"
    /\ StopChanClosed
    /\ DispReturn
    /\ UNCHANGED <<hdbVars, initialScanLatencies, mu, crashed, tgStopped,
                   closePc, synced, wpc, workerLocals, hostVars,
                   unlocking, bgScans, now, launchSnap>>

\* Line 231: the timer case of the select.
TickTimer ==
    /\ ~crashed
    /\ timer' = 0
    /\ dpc = "tick"
    /\ dpc' = "pull"
    /\ UNCHANGED <<hdbVars, initialScanLatencies, mu, crashed, tgVars,
                   synced, wpc, workerLocals, hostVars,
                   unlocking, bgScans, now, launchSnap>>
\* ------------------------------------------------------------- scan worker
ResetLocals(h) ==
    /\ werr' = [werr EXCEPT ![h] = ErrNone]
    /\ wsuccess' = [wsuccess EXCEPT ![h] = FALSE]
    /\ wlatency' = [wlatency EXCEPT ![h] = 0]
    /\ wtimeout' = [wtimeout EXCEPT ![h] = 0]
    /\ wstart' = [wstart EXCEPT ![h] = 0]

ConsumeSnap(h) ==
    launchSnap' = IF launchSnap.host = h THEN NoSnap ELSE launchSnap

\* Lines 192-196 and 214-218: the goroutine registers with the thread
\* group; when refused it unlocks hdb.mu and returns.
register(h, next) ==
    IF tgAddOk
    THEN /\ tgCount' = tgCount + 1
         /\ wpc' = [wpc EXCEPT ![h] = next]
         /\ UNCHANGED <<mu, crashed>>
    ELSE /\ Unlock
         /\ wpc' = [wpc EXCEPT ![h] = "idle"]
         /\ UNCHANGED tgCount

\* utils.EqualIPNets
EqualIPNets(a, b) == a = b

\* Lines 48-55 updating the entry also when the lookup failed.
lookupIPNetsNoErrTest(h, r) ==
    IF ~EqualIPNets(r.nets, ipNets[h])
    THEN /\ ipNets' = [ipNets EXCEPT ![h] = r.nets]
         /\ lastIPChange' = [lastIPChange EXCEPT ![h] = now]
    ELSE UNCHANGED netVars

\* Lines 48-55: r is what utils.LookupIPNets returned.
lookupIPNets(h, r) ==
    IF ~r.err /\ ~EqualIPNets(r.nets, ipNets[h])
    THEN /\ ipNets' = [ipNets EXCEPT ![h] = r.nets]
         /\ lastIPChange' = [lastIPChange EXCEPT ![h] = now]
    ELSE UNCHANGED netVars

\* Lines 192-197 and 48-55: the goroutine registers and, when admitted,
\* enters scanHost, which first resolves the host's networks (statements
\* on the worker's own entry).
ScanRegister(h) ==
    /\ ~crashed
    /\ wpc[h] = "launched"
    /\ register(h, "fold")
    /\ IF tgAddOk
       THEN \E r \in Lookups : lookupIPNets(h, r)
       ELSE UNCHANGED netVars
    /\ ConsumeSnap(h)
    /\ UNCHANGED <<hdbVars, initialScanLatencies, tgStopped, closePc,
                   synced, dispVars, workerLocals, history, lastSeen, succ,
                   fail, unlocking, bgScans, now>>

\* Lines 58-59.
FoldLock(h) ==
    /\ ~crashed
    /\ wpc[h] = "fold"
    /\ Lock(h)
    /\ wpc' = [wpc EXCEPT ![h] = "foldU"]
    /\ UNCHANGED <<hdbVars, initialScanLatencies, tgVars, synced, dispVars,
                   workerLocals, hostVars, unlocking, bgScans, now,
                   launchSnap>>

\* Line 60.
FoldUnlock(h) ==
    /\ ~crashed
    /\ wpc[h] = "foldU"
    /\ Unlock
    /\ wpc' = [wpc EXCEPT ![h] = "tmo"]
    /\ UNCHANGED <<hdbVars, initialScanLatencies, tgVars, synced, dispVars,
                   workerLocals, hostVars, unlocking, bgScans, now,
                   launchSnap>>

Min(a, b) == IF a < b THEN a ELSE b

\* Lines 69-80: the timeout read from the latency buffer.
adaptiveTimeout ==
    IF Len(initialScanLatencies) = minScans
    THEN Min(5 * initialScanLatencies[(Len(initialScanLatencies) \div 2) + 1],
             twoMinutes)
    ELSE twoMinutes

\* Lines 69-80.
TimeoutLock(h) ==
    /\ ~crashed
    /\ wpc[h] = "tmo"
    /\ Lock(h)
    /\ wtimeout' = [wtimeout EXCEPT ![h] = adaptiveTimeout]
    /\ wpc' = [wpc EXCEPT ![h] = "tmoU"]
    /\ UNCHANGED <<hdbVars, initialScanLatencies, tgVars, synced, dispVars,
                   werr, wsuccess, wlatency, wstart, hostVars, unlocking,
                   bgScans, now, launchSnap>>

\* Lines 81-96: Unlock, the cancellable context, start = time.Now().
TimeoutUnlock(h) ==
    /\ ~crashed
    /\ wpc[h] = "tmoU"
    /\ Unlock
    /\ wstart' = [wstart EXCEPT ![h] = now]
    /\ wpc' = [wpc EXCEPT ![h] = "v2"]
    /\ UNCHANGED <<hdbVars, initialScanLatencies, tgVars, synced, dispVars,
                   werr, wsuccess, wlatency, wtimeout, hostVars, unlocking,
                   bgScans, now, launchSnap>>

\* What a protocol attempt can return: nil, a network failure, or, once
\* the stop channel is closed and the context cancelled, a cancellation.
AttemptErrors == {ErrNone, ErrDial} \cup (IF StopChanClosed THEN {ErrCanceled} ELSE {})

\* Lines 97-105: the RHP2 handshake; success is set when it returns nil.
rhp2Result(h, e, lat) ==
    /\ wlatency' = [wlatency EXCEPT ![h] = lat]
    /\ werr' = [werr EXCEPT ![h] = e]
    /\ wsuccess' = [wsuccess EXCEPT ![h] = (e = ErrNone)]
    /\ wpc' = [wpc EXCEPT ![h] = IF e = ErrNone THEN "v3" ELSE "classify"]

\* Lines 97-105.
HandshakeV2(h) ==
    /\ ~crashed
    /\ wpc[h] = "v2"
    /\ \E e \in AttemptErrors, lat \in Latencies : rhp2Result(h, e, lat)
    /\ UNCHANGED <<hdbVars, initialScanLatencies, mu, crashed, tgVars,
                   synced, dispVars, wtimeout, wstart, hostVars, unlocking,
                   bgScans, now, launchSnap>>

\* Lines 107-116: the RHP3 price-table handshake; err is what it returns.
HandshakeV3(h) ==
    /\ ~crashed
    /\ wpc[h] = "v3"
    /\ \E e \in AttemptErrors : werr' = [werr EXCEPT ![h] = e]
    /\ wpc' = [wpc EXCEPT ![h] = "classify"]
    /\ UNCHANGED <<hdbVars, initialScanLatencies, mu, crashed, tgVars,
                   synced, dispVars, wsuccess, wlatency, wtimeout, wstart,
                   hostVars, unlocking, bgScans, now, launchSnap>>

\* The record of lines 130-137 with start left at its zero value.
HostScanNoStart(h) == [Timestamp |-> TimeUnset, Success |-> wsuccess[h],
                       Error |-> werr[h]]

\* Lines 130-137.
HostScan(h) == [Timestamp |-> wstart[h], Success |-> wsuccess[h],
                Error |-> werr[h]]

\* The store's updateScanHistory: the record is appended, and a successful
\* scan moves last-seen to its timestamp.
updateScanHistory(h, scan) ==
    /\ history' = [history EXCEPT ![h] = Append(@, scan)]
    /\ lastSeen' = [lastSeen EXCEPT ![h] = IF scan.Success THEN scan.Timestamp ELSE @]

\* Lines 122-128: IncrementSuccessfulInteractions or
\* IncrementFailedInteractions.
incrementInteractions(h) ==
    IF werr[h] = ErrNone
    THEN succ' = [succ EXCEPT ![h] = @ + 1] /\ UNCHANGED fail
    ELSE fail' = [fail EXCEPT ![h] = @ + 1] /\ UNCHANGED succ

\* scanHost without the early return of lines 118-121.
classifyNoCancelReturn(h) ==
    /\ incrementInteractions(h)
    /\ updateScanHistory(h, HostScan(h))
    /\ wpc' = [wpc EXCEPT ![h] = "latCheck"]
    /\ UNCHANGED <<tgCount, workerLocals, netVars>>

\* Lines 118-143: what scanHost does with the error of the attempt.
classify(h) ==
    IF werr[h] # ErrNone /\ ContainsCanceled(werr[h])
    THEN /\ wpc' = [wpc EXCEPT ![h] = "idle"]
         /\ tgCount' = tgCount - 1
         /\ ResetLocals(h)
         /\ UNCHANGED hostVars
    ELSE /\ incrementInteractions(h)
         /\ updateScanHistory(h, HostScan(h))
         /\ wpc' = [wpc EXCEPT ![h] = "latCheck"]
         /\ UNCHANGED <<tgCount, workerLocals, netVars>>

\* Lines 118-143.
Classify(h) ==
    /\ ~crashed
    /\ wpc[h] = "classify"
    /\ classify(h)
    /\ UNCHANGED <<hdbVars, initialScanLatencies, mu, crashed, tgStopped,
                   closePc, synced, dispVars, unlocking, bgScans, now,
                   launchSnap>>

\* Line 146: the test, made without the mutex.
LatencyCheck(h) ==
    /\ ~crashed
    /\ wpc[h] = "latCheck"
    /\ wpc' = [wpc EXCEPT ![h] =
                 IF wsuccess[h] /\ Len(initialScanLatencies) < latencyCap
                 THEN "latAppend" ELSE "bk"]
    /\ UNCHANGED <<hdbVars, initialScanLatencies, mu, crashed, tgVars,
                   synced, dispVars, workerLocals, hostVars, unlocking,
                   bgScans, now, launchSnap>>

\* Lines 147-149: the append and the test of the new length.
LatencyAppend(h) ==
    /\ ~crashed
    /\ wpc[h] = "latAppend"
    /\ initialScanLatencies' = Append(initialScanLatencies, wlatency[h])
    /\ wpc' = [wpc EXCEPT ![h] =
                 IF Len(initialScanLatencies') = latencyCap
                 THEN "latSort" ELSE "bk"]
    /\ UNCHANGED <<hdbVars, mu, crashed, tgVars, synced, dispVars,
                   workerLocals, hostVars, unlocking, bgScans, now,
                   launchSnap>>

\* Lines 150-152.
LatencySort(h) ==
    /\ ~crashed
    /\ wpc[h] = "latSort"
    /\ initialScanLatencies' = SortSeq(initialScanLatencies, LessThan)
    /\ wpc' = [wpc EXCEPT ![h] = "bk"]
    /\ UNCHANGED <<hdbVars, mu, crashed, tgVars, synced, dispVars,
                   workerLocals, hostVars, unlocking, bgScans, now,
                   launchSnap>>

\* delete(hdb.scanMap, key)
Delete(m, h) == [x \in DOMAIN m \ {h} |-> m[x]]

\* Lines 157-160 without the delete of line 158.
BookkeepingNoDelete(h) ==
    /\ ~crashed
    /\ wpc[h] = "bk"
    /\ Lock(h)
    /\ scanThreads' = scanThreads - 1
    /\ wpc' = [wpc EXCEPT ![h] = "idle"]
    /\ unlocking' = unlocking \cup {h}
    /\ ResetLocals(h)
    /\ UNCHANGED <<scanList, benchmarkList, benchmarking, scanMap,
                   initialScanLatencies, tgVars, synced, dispVars, hostVars,
                   bgScans, now, launchSnap>>

\* Lines 157-159: the mutex taken, the entry deleted, the counter
\* decremented.  The goroutine has only its Unlock and tg.Done left.
Bookkeeping(h) ==
    /\ ~crashed
    /\ wpc[h] = "bk"
    /\ Lock(h)
    /\ scanMap' = Delete(scanMap, h)
    /\ scanThreads' = scanThreads - 1
    /\ wpc' = [wpc EXCEPT ![h] = "idle"]
    /\ unlocking' = unlocking \cup {h}
    /\ ResetLocals(h)
    /\ UNCHANGED <<scanList, benchmarkList, benchmarking,
                   initialScanLatencies, tgVars, synced, dispVars, hostVars,
                   bgScans, now, launchSnap>>

\* Line 160 and the deferred tg.Done of line 196 / 218.
FinishUnlock(t) ==
    /\ ~crashed
    /\ t \in unlocking
    /\ Unlock
    /\ unlocking' = unlocking \ {t}
    /\ tgCount' = tgCount - 1
    /\ UNCHANGED <<hdbVars, initialScanLatencies, tgStopped, closePc,
                   synced, dispVars, wpc, workerLocals, hostVars, bgScans,
                   now, launchSnap>>

\* -------------------------------------------------------- benchmark worker
\* Lines 214-219.
BenchRegister(h) ==
    /\ ~crashed
    /\ wpc[h] = "bLaunched"
    /\ register(h, "bench")
    /\ ConsumeSnap(h)
    /\ UNCHANGED <<hdbVars, initialScanLatencies, tgStopped, closePc,
                   synced, dispVars, workerLocals, hostVars, unlocking,
                   bgScans, now>>

\* benchmarkHost completing, on any path: under the mutex the flag is
\* cleared and the in-flight entry removed.
benchmarkHost(h) ==
    /\ benchmarking' = FALSE
    /\ scanMap' = Delete(scanMap, h)

BenchFinish(h) ==
    /\ ~crashed
    /\ wpc[h] = "bench"
    /\ Lock(h)
    /\ benchmarkHost(h)
    /\ wpc' = [wpc EXCEPT ![h] = "idle"]
    /\ unlocking' = unlocking \cup {h}
    /\ UNCHANGED <<scanList, benchmarkList, scanThreads,
                   initialScanLatencies, tgVars, synced, dispVars,
                   workerLocals, hostVars, bgScans, now, launchSnap>>

\* ------------------------------------------- workers of hosts outside Hosts
BgFloor == maxScanThreads - BgGap - MaxBgDone

\* Lines 157-159 for a host outside Hosts.
BgBookkeeping ==
    /\ ~crashed
    /\ bgScans > BgFloor
    /\ BgId \notin unlocking
    /\ Lock(BgId)
    /\ scanThreads' = scanThreads - 1
    /\ bgScans' = bgScans - 1
    /\ unlocking' = unlocking \cup {BgId}
    /\ UNCHANGED <<scanList, benchmarkList, scanMap, benchmarking,
                   initialScanLatencies, tgVars, synced, dispVars, wpc,
                   workerLocals, hostVars, now, launchSnap>>

\* ------------------------------------------------------------- environment
\* Close, line 97: tg.Stop closes the stop channel ...
CloseStop ==
    /\ ~crashed
    /\ closePc = "open"
    /\ tgStopped' = TRUE
    /\ closePc' = "stopping"
    /\ UNCHANGED <<hdbVars, initialScanLatencies, mu, crashed, tgCount,
                   synced, dispVars, wpc, workerLocals, hostVars, unlocking,
                   bgScans, now, launchSnap>>

\* ... and returns when the group has drained; line 100 closes the store.
CloseReturn ==
    /\ ~crashed
    /\ closePc = "stopping"
    /\ tgCount = 0
    /\ closePc' = "closed"
    /\ UNCHANGED <<hdbVars, initialScanLatencies, mu, crashed, tgStopped,
                   tgCount, synced, dispVars, wpc, workerLocals, hostVars,
                   unlocking, bgScans, now, launchSnap>>

\* hdb.syncer.Synced() starts to report true.
SyncerSynced ==
    /\ ~crashed
    /\ ~synced
    /\ synced' = TRUE
    /\ UNCHANGED <<hdbVars, initialScanLatencies, mu, crashed, tgVars,
                   dispVars, wpc, workerLocals, hostVars, unlocking,
                   bgScans, now, launchSnap>>

\* One scan interval of wall-clock time passes.
Advance ==
    /\ ~crashed
    /\ now < MaxTicks * scanInterval
    /\ now' = now + scanInterval
    /\ UNCHANGED <<hdbVars, initialScanLatencies, mu, crashed, tgVars,
                   synced, dispVars, wpc, workerLocals, hostVars, unlocking,
                   bgScans, launchSnap>>

\* ------------------------------------------------------------ specification
Dispatcher ==
    \/ DispStart \/ SyncCheck \/ SyncSelectStop \/ SyncSelectTimer
    \/ getHostsForScan \/ (\E h \in Hosts : QueueScanLock(h))
    \/ QueueScanUnlock \/ QueueDone
    \/ ScanLoopExit \/ ScanLoopLock \/ ScanLoopUnlock \/ ScanCapUnlock
    \/ BenchLoopExit \/ BenchLoopLock \/ BenchLoopUnlock \/ BenchBusyUnlock
    \/ TickStop \/ TickTimer

ScanWorker(h) ==
    \/ ScanRegister(h) \/ FoldLock(h) \/ FoldUnlock(h)
    \/ TimeoutLock(h) \/ TimeoutUnlock(h)
    \/ HandshakeV2(h) \/ HandshakeV3(h) \/ Classify(h)
    \/ LatencyCheck(h) \/ LatencyAppend(h) \/ LatencySort(h)
    \/ Bookkeeping(h)

BenchWorker(h) == BenchRegister(h) \/ BenchFinish(h)

Next ==
    \/ Dispatcher
    \/ \E h \in Hosts : ScanWorker(h) \/ BenchWorker(h)
    \/ \E t \in unlocking : FinishUnlock(t)
    \/ BgBookkeeping
    \/ CloseStop \/ CloseReturn \/ SyncerSynced \/ Advance

Spec == Init /\ [][Next]_vars

\* The running database while Close is not called and the scans of hosts
\* outside Hosts go on, with batches that hold each host for a scan up to
\* MaxScans + 1 times.
DispatcherRescan ==
    \/ getHostsForScan
    \/ (\E h \in Hosts : QueueScanCapped(h, MaxScans + 1))
    \/ QueueScanUnlock \/ QueueDone
    \/ ScanLoopExit \/ ScanLoopLock \/ ScanLoopUnlock \/ ScanCapUnlock
    \/ BenchLoopExit \/ BenchLoopLock \/ BenchLoopUnlock \/ BenchBusyUnlock
    \/ TickTimer

NextRescan ==
    \/ DispatcherRescan
    \/ \E h \in Hosts : ScanWorker(h) \/ BenchWorker(h)
    \/ \E t \in unlocking : FinishUnlock(t)
    \/ Advance

SpecRescan == InitRunning /\ [][NextRescan]_vars

\* A database whose scan workers are all busy with hosts outside Hosts:
\* the cap of line 187 is reached.
InitBusy ==
    /\ InitCommon
    /\ scanThreads = maxScanThreads
    /\ bgScans = maxScanThreads
    /\ initialScanLatencies = WarmSamples
    /\ tgCount = 1 + maxScanThreads
    /\ synced = TRUE
    /\ dpc = "tick"
    /\ timer = scanCheckInterval

\* The hosts of Hosts that the store's batches hold in SpecNoStop; with
\* one such host no benchmark is ever queued while one runs.
BatchHosts == {h \in Hosts : h = 1}

\* The database while Close is not called.
DispatcherNoStop ==
    \/ DispStart \/ SyncCheck \/ SyncSelectTimer
    \/ getHostsForScan \/ (\E h \in BatchHosts : QueueScanLock(h))
    \/ QueueScanUnlock \/ QueueDone
    \/ ScanLoopExit \/ ScanLoopLock \/ ScanLoopUnlock \/ ScanCapUnlock
    \/ BenchLoopExit \/ BenchLoopLock \/ BenchLoopUnlock
    \/ TickTimer

NextNoStop ==
    \/ DispatcherNoStop
    \/ \E h \in Hosts : ScanWorker(h) \/ BenchWorker(h)
    \/ \E t \in unlocking : FinishUnlock(t)
    \/ BgBookkeeping
    \/ SyncerSynced \/ Advance

\* Scheduling: the Go scheduler runs every runnable goroutine, and a
\* goroutine blocked in Lock gets the mutex when it is free often enough
\* (sync.Mutex hands a starving waiter the lock); a batch of the store is
\* finite; every scan of a host outside Hosts terminates.
FairNoStop ==
    /\ SF_vars(QueueDone)
    /\ SF_vars(DispatcherNoStop)
    /\ \A h \in BatchHosts :
          SF_vars(ScanWorker(h)) /\ SF_vars(BenchWorker(h))
    /\ \A t \in BatchHosts \cup {BgId} : SF_vars(FinishUnlock(t))
    /\ SF_vars(BgBookkeeping)

SpecNoStop == (InitNew \/ InitBusy) /\ [][NextNoStop]_vars /\ FairNoStop

\* One iteration of the dispatcher up to the end of the batch, on a
\* loaded store.
NextQueue ==
    \/ TickTimer \/ getHostsForScan
    \/ (\E h \in Hosts : QueueScanLock(h)) \/ QueueScanUnlock \/ QueueDone

SpecQueue == InitLoaded /\ [][NextQueue]_vars
\* ================================================================== claims
ScanPcs == {"launched", "fold", "foldU", "tmo", "tmoU", "v2", "v3",
            "classify", "latCheck", "latAppend", "latSort", "bk"}
BenchPcs == {"bLaunched", "bench"}

\* A scan worker for h has been launched and has not yet done its final
\* bookkeeping or returned.
ScanActive(h) == wpc[h] \in ScanPcs
BenchActive(h) == wpc[h] \in BenchPcs
Queued(h) == InSeq(h, scanList) \/ InSeq(h, benchmarkList)

LiveScanWorkers == Cardinality({h \in Hosts : ScanActive(h)}) + bgScans

IsSorted(s) == \A i \in 1..(Len(s) - 1) : s[i] <= s[i + 1]

\* C1: in every reachable state scanThreads equals the number of scan
\* workers launched and not yet exited, also after a worker exits on a
\* cancelled scan or a refused registration.
C1_CounterEqualsLiveWorkers == scanThreads = LiveScanWorkers

\* C2: scanThreads stays within 0..maxScanThreads; a step that raises it
\* starts below the cap, and a drain iteration that finds the cap reached
\* with hosts still queued launches nothing and leaves the loop.
C2_CounterWithinCap ==
    /\ [](scanThreads >= 0 /\ scanThreads <= maxScanThreads)
    /\ [][/\ scanThreads' > scanThreads => scanThreads < maxScanThreads
          /\ (/\ dpc = "scanLoop" /\ dpc' # dpc
              /\ Len(scanList) > 0 /\ scanThreads >= maxScanThreads)
                => (dpc' = "scanCapU" /\ UNCHANGED <<scanList, wpc, scanThreads>>)]_vars

\* The cap is reached with a host still queued, and the dispatcher has
\* taken the break branch.
C2_Witness ==
    /\ scanThreads = maxScanThreads
    /\ Len(scanList) > 0
    /\ dpc = "scanCapU"

\* C3: at most one benchmark worker is live, and one is live only while
\* the benchmarking flag is set.
C3_OneBenchmark ==
    /\ Cardinality({h \in Hosts : BenchActive(h)}) <= 1
    /\ (\E h \in Hosts : BenchActive(h)) => benchmarking

\* A benchmark is running, another benchmark-eligible host is queued, and
\* the dispatcher found the flag set.
C3_Witness ==
    /\ \E h \in Hosts : wpc[h] = "bench"
    /\ Len(benchmarkList) > 0
    /\ dpc = "benchBusyU"

\* C4: scanMap holds an entry for a host iff a worker for the host is
\* active; stated in its widest reading, in which a host waiting in a queue
\* for its worker counts as having one.
C4_InFlightIffActive ==
    \A h \in Hosts :
        (h \in DOMAIN scanMap) <=> (Queued(h) \/ ScanActive(h) \/ BenchActive(h))

\* C5: a host is in at most one of: the scan queue (once), the benchmark
\* queue (once), being scanned, being benchmarked.
C5_OneSituation ==
    \A h \in Hosts :
        Occurrences(h, scanList) + Occurrences(h, benchmarkList)
          + (IF ScanActive(h) \/ BenchActive(h) THEN 1 ELSE 0) <= 1

\* queueScan has just run (the dispatcher still holds the mutex) for a
\* host whose worker is active, and queued nothing.
C5_Witness ==
    /\ dpc = "queueU"
    /\ scanList = <<>> /\ benchmarkList = <<>>
    /\ \E h \in Hosts : ScanActive(h)
    /\ \A h \in Hosts : ScanActive(h) \/ BenchActive(h)

\* C6: a scan whose attempt was cancelled by the stop signal, in the RHP2
\* or the RHP3 phase, returns without a scan record, without either
\* increment and without a latency sample.
C6_CancelledScanSilent ==
    [][\A h \in Hosts :
          (wpc[h] = "classify" /\ ContainsCanceled(werr[h]) /\ wpc'[h] # wpc[h])
            => /\ wpc'[h] = "idle"
               /\ history'[h] = history[h]
               /\ succ'[h] = succ[h] /\ fail'[h] = fail[h]
               /\ initialScanLatencies' = initialScanLatencies]_vars

\* The stop signal has cancelled a scan in its RHP3 phase.
C6_Witness ==
    \E h \in Hosts :
        wpc[h] = "classify" /\ ContainsCanceled(werr[h]) /\ wsuccess[h] /\ tgStopped

\* C7: a worker whose registration is refused leaves the queues, the
\* counter and the flag as they were before the dispatcher tried to launch
\* it.
C7_RefusalRestores ==
    [][\A h \in Hosts :
          (wpc[h] \in {"launched", "bLaunched"} /\ wpc'[h] = "idle"
             /\ launchSnap.host = h)
            => <<scanList', benchmarkList', scanThreads', benchmarking'>>
                 = launchSnap.vals]_vars

\* C8: a queueScan call that changes any of the queues, the map, the
\* counter or the flag was made for a host without an entry; for a host in
\* flight it changes none of them.
C8_QueueScanInFlightNoop ==
    [][(dpc = "queue" /\ dpc' = "queueU")
         => \/ UNCHANGED hdbVars
            \/ \E h \in Hosts : /\ h \notin DOMAIN scanMap
                                /\ DOMAIN scanMap' = DOMAIN scanMap \cup {h}]_vars

\* queueScan has just run while every host is in flight and no host is
\* queued: the call was for a host in flight.
C8_Witness ==
    /\ dpc = "queueU"
    /\ DOMAIN scanMap = Hosts
    /\ \E h \in Hosts : scanMap[h] /\ BenchActive(h)

\* C9: the latency buffer never holds more than 25 samples; once a worker
\* has filled and sorted it, it is sorted and never changes.
C9_LatencyBufferFrozen ==
    /\ [](Len(initialScanLatencies) <= latencyCap)
    /\ []((Len(initialScanLatencies) = latencyCap
            /\ \A h \in Hosts : wpc[h] # "latSort")
           => IsSorted(initialScanLatencies))
    /\ [][(Len(initialScanLatencies) = latencyCap
            /\ \A h \in Hosts : wpc[h] # "latSort")
           => initialScanLatencies' = initialScanLatencies]_vars

\* C10: a written scan record has Success exactly when its Error is empty
\* and exactly when the success counter (and not the failure counter) was
\* incremented for that scan; one of the two is incremented per record.
C10_RecordMatchesCounters ==
    [][\A h \in Hosts :
          history'[h] # history[h]
            => LET r == Last(history'[h]) IN
               /\ r.Success <=> (r.Error = ErrNone)
               /\ r.Success <=> (succ'[h] = succ[h] + 1 /\ fail'[h] = fail[h])
               /\ (~r.Success) <=> (fail'[h] = fail[h] + 1 /\ succ'[h] = succ[h])]_vars

\* C15: a host's IP-network set and its last-IP-change time change only in
\* the resolution at the start of its scan, both or neither: both when the
\* lookup succeeds with a set other than the stored one (the time becoming
\* the current time), neither when it fails or returns the stored set; and
\* whatever the lookup returned, an admitted worker goes on to the attempt.
C15_IPNetsTogether ==
    [][\A h \in Hosts :
          /\ IF wpc[h] = "launched" /\ wpc'[h] = "fold"
             THEN \E r \in Lookups :
                     \/ /\ ~r.err /\ r.nets # ipNets[h]
                        /\ ipNets'[h] = r.nets /\ lastIPChange'[h] = now
                     \/ /\ r.err \/ r.nets = ipNets[h]
                        /\ ipNets'[h] = ipNets[h]
                        /\ lastIPChange'[h] = lastIPChange[h]
             ELSE ipNets'[h] = ipNets[h] /\ lastIPChange'[h] = lastIPChange[h]
          /\ (wpc[h] = "launched" /\ wpc'[h] # wpc[h] /\ tgAddOk)
               => wpc'[h] = "fold"]_vars

\* One host's scan found a new set, another's found none or the stored
\* one, and both scans went on to their protocol attempt.
C15_Witness ==
    \E g, h \in Hosts :
        /\ ipNets[g] = {"10.0.2.0/24"} /\ lastIPChange[g] = now
        /\ wpc[g] \in {"v3", "classify"}
        /\ ipNets[h] = {"10.0.1.0/24"} /\ lastIPChange[h] = TimeUnset
        /\ wpc[h] \in {"v3", "classify"}

\* The step is one of task t's statements.
StepBy(t) ==
    IF t = DispId THEN dpc' # dpc
    ELSE IF t = BgId THEN bgScans' # bgScans \/ (BgId \in unlocking \ unlocking')
    ELSE \/ dpc' = dpc /\ wpc'[t] # wpc[t]
         \/ t \in unlocking \ unlocking'

\* C18: a step that writes the scan queue, the benchmark queue, the
\* in-flight map, the counter, the flag or the latency buffer is taken by
\* the task that holds the mutex (or takes it in that step).
C18_SharedUnderMutex ==
    [][\A t \in Tasks :
          (StepBy(t) /\ <<hdbVars, initialScanLatencies>>'
                          # <<hdbVars, initialScanLatencies>>)
            => (mu = t \/ mu' = t)]_vars

\* C20: the mutex is released only by the task that holds it, and is
\* never unlocked while unlocked.
C20_UnlockByHolder ==
    /\ [](~crashed)
    /\ [][\A t \in Tasks :
            (StepBy(t) /\ mu # NoOwner /\ mu' = NoOwner) => mu = t]_vars

\* The dispatcher is before or in the wait loop of lines 172-181.
WaitPcs == {"start", "syncCheck", "syncSelect"}

\* No batch has been pulled and no worker launched.
Pristine ==
    /\ scanList = <<>> /\ benchmarkList = <<>> /\ scanMap = <<>>
    /\ scanThreads = 0 /\ ~benchmarking
    /\ \A h \in Hosts : wpc[h] = "idle" /\ history[h] = <<>>

\* C19: until the syncer reports synced the dispatcher is in its wait
\* loop (or has returned), where it sleeps scanCheckInterval between two
\* polls; as long as it is there no batch has been pulled and no worker
\* launched; and when the stop signal ends the wait the dispatcher has
\* returned for good, still without a batch or a worker.
C19_NothingBeforeSynced ==
    /\ [](~synced => dpc \in WaitPcs \cup {"done"})
    /\ [](dpc \in WaitPcs => Pristine)
    /\ [](dpc = "syncSelect" => timer = scanCheckInterval)
    /\ [][/\ (dpc = "syncSelect" /\ dpc' # dpc)
               => \/ dpc' = "syncCheck"
                  \/ StopChanClosed /\ dpc' = "done" /\ Pristine'
          /\ dpc = "done" => dpc' = "done"
          /\ (dpc = "done" /\ Pristine) => Pristine']_vars

\* The stop signal fired while the dispatcher waited for the syncer, and
\* the dispatcher has returned.
C19_Witness ==
    /\ dpc = "done" /\ tgStopped /\ ~synced
    /\ Pristine

\* C13: a queueScan call that enters a host into the in-flight map appends
\* it to the benchmark queue and stores TRUE exactly when its history is
\* non-empty and less than interval(host) has passed since its latest
\* record's timestamp; otherwise it appends it to the scan queue and
\* stores FALSE.
C13_Routing ==
    [][\A h \in Hosts :
          (dpc = "queue" /\ dpc' = "queueU"
             /\ h \notin DOMAIN scanMap /\ h \in DOMAIN scanMap')
            => IF /\ history[h] # <<>>
                  /\ now - Last(history[h]).Timestamp
                       < calculateScanInterval(lastSeen[h], now)
               THEN /\ benchmarkList' = Append(benchmarkList, h)
                    /\ scanList' = scanList
                    /\ scanMap'[h] = TRUE
               ELSE /\ scanList' = Append(scanList, h)
                    /\ benchmarkList' = benchmarkList
                    /\ scanMap'[h] = FALSE]_vars

\* queueScan has just sent to the scan queue a host whose latest scan
\* started exactly interval(host) ago, a longer interval than 30 minutes.
C13_Witness ==
    /\ dpc = "queueU"
    /\ \E h \in Hosts :
          /\ InSeq(h, scanList) /\ ~scanMap[h]
          /\ history[h] # <<>>
          /\ now - Last(history[h]).Timestamp
               = calculateScanInterval(lastSeen[h], now)
          /\ calculateScanInterval(lastSeen[h], now) > scanInterval

\* The table of the interval policy, in minutes; age is the time since
\* the host was last seen.
IntervalTable(age) ==
    IF age <= 24 * 60 THEN 30
    ELSE IF age <= 2 * 24 * 60 THEN 60
    ELSE IF age <= 3 * 24 * 60 THEN 120
    ELSE IF age <= 7 * 24 * 60 THEN 240
    ELSE IF age <= 14 * 24 * 60 THEN 360
    ELSE IF age <= 28 * 24 * 60 THEN 720
    ELSE 1440

\* C14: calculateScanInterval returns 30 minutes for a host never seen
\* and the table's value for one seen; for hosts seen it never decreases
\* as the time since last seen grows.
C14_IntervalTiers ==
    /\ calculateScanInterval(TimeUnset, now) = 30
    /\ \A h \in Hosts :
          lastSeen[h] # TimeUnset
            => calculateScanInterval(lastSeen[h], now)
                 = IntervalTable(now - lastSeen[h])
    /\ \A a, b \in Ages :
          a <= b => calculateScanInterval(now - a, now)
                      <= calculateScanInterval(now - b, now)

\* queueScan has just routed a host last seen more than 28 days ago whose
\* latest scan started less than 24 hours ago: to the benchmark queue.
C14_Witness ==
    /\ dpc = "queueU"
    /\ \E h \in Hosts :
          /\ lastSeen[h] # TimeUnset /\ now - lastSeen[h] > 28 * 24 * 60
          /\ now - Last(history[h]).Timestamp = 24 * 60 - 1
          /\ InSeq(h, benchmarkList)

\* The median of 25 samples: the 13th smallest.
Median(s) == SortSeq(s, LessThan)[13]

\* C12: the timeout a worker reads at the start of its attempt is 2 minutes
\* when the latency buffer holds fewer than 25 samples, and
\* min(5 x median, 2 minutes) when it holds 25.
C12_AdaptiveTimeout ==
    [][\A h \in Hosts :
          (wpc[h] = "tmo" /\ wpc'[h] = "tmoU")
            => /\ Len(initialScanLatencies) < 25 => wtimeout'[h] = twoMinutes
               /\ Len(initialScanLatencies) = 25
                    => wtimeout'[h] = Min(5 * Median(initialScanLatencies),
                                          twoMinutes)]_vars

\* C11: a host's scan history changes only by one record appended at its
\* tail, written by the host's running scan and stamped with that scan's
\* start time; the timestamps are non-decreasing along the history; and a
\* scan of a host is launched only when none is running for it.
C11_HistoryAppendOnly ==
    /\ [](\A h \in Hosts : \A i \in 1..(Len(history[h]) - 1) :
              history[h][i].Timestamp <= history[h][i + 1].Timestamp)
    /\ [][\A h \in Hosts :
            /\ history'[h] # history[h]
                 => /\ history'[h] = Append(history[h], Last(history'[h]))
                    /\ Last(history'[h]).Timestamp = wstart[h]
                    /\ ScanActive(h)
            /\ (wpc'[h] = "launched" /\ wpc[h] # "launched")
                 => wpc[h] = "idle"]_vars

\* A host has been scanned twice, the second scan started later.
C11_Witness ==
    \E h \in Hosts :
        /\ Len(history[h]) = 2
        /\ history[h][1].Timestamp < history[h][2].Timestamp

\* C17: while Close is not called, a host in the scan queue is eventually
\* launched, a launched scan eventually leaves a record and its host
\* leaves the in-flight map, and no host stays in the map forever.
C17_ScanProgress ==
    \A h \in BatchHosts :
        /\ InSeq(h, scanList) ~> ScanActive(h)
        /\ ScanActive(h) ~> (history[h] # <<>> /\ h \notin DOMAIN scanMap)
        /\ (h \in DOMAIN scanMap) ~> (h \notin DOMAIN scanMap)

\* A host that was scanned and left the map has been enqueued again by a
\* later batch.
C17_Witness ==
    \E h \in Hosts :
        /\ history[h] # <<>> /\ wpc[h] = "idle"
        /\ h \in DOMAIN scanMap /\ Queued(h)
        /\ dpc = "queueU"

\* No goroutine is registered with the thread group: the dispatcher has
\* not yet called tg.Add or has returned, and so has every worker.
NoneRegistered ==
    /\ dpc \in {"start", "done"}
    /\ \A h \in Hosts : wpc[h] \in {"idle", "launched", "bLaunched"}
    /\ unlocking = {}
    /\ bgScans = 0

\* C16: Close has returned (and closed the store) only when the dispatcher
\* and every registered worker have deregistered; and while Close waits
\* for them the process is running, so that the wait can end.
C16_CloseDrains ==
    /\ closePc = "closed" => (tgStopped /\ NoneRegistered)
    /\ closePc = "stopping" => ~crashed
====
